---- MODULE Spec2Model ----
(***************************************************************************)
(* Model of the shop-management backend (mern-version/backend):            *)
(*   models/Purchase.js     purchase schema, pre('save') and post('save')  *)
(*   models/Customer.js     customer schema, updatePurchaseStats           *)
(*   routes/purchaseRoutes  createPurchase, updatePurchase, deletePurchase,*)
(*                          updatePaymentStatus, getOverduePayments        *)
(*   customer routes        createCustomer, deleteCustomer                 *)
(* Every request handler is one action: the handler runs to completion     *)
(* (validation, hooks, writes, emit) before the next request is served.    *)
(* Fields that no handler reads to a decision (names, notes, invoice       *)
(* number, paymentMethod) are left out of the documents.                   *)
(* Mongoose behaviour the handlers rely on:                                *)
(*   - document.save() validates first, then runs pre('save'), writes,     *)
(*     then runs post('save'); Model.create is new + save;                 *)
(*   - findOneAndUpdate validates the updated paths (runValidators) and    *)
(*     writes them; it runs neither pre('save') nor post('save').          *)
(* Amounts are small integers (a unit of 500 makes the 1000/500 example    *)
(* 2/1); dates are ticks of the clock now; an absent date is NoDate.       *)
(***************************************************************************)
EXTENDS Integers, Sequences, FiniteSets, TLC

\* ------------------------------------------------------------------ bounds
MaxPurchases == 2
MaxCustomers == 2
MaxNow == 1
MaxAmount == 2
MaxRequests == 3
MaxSockets == 2
MaxCalls == 2
MaxReportPurchases == 3
DayLen == 2
MonthLen == 2

\* ------------------------------------------------------- value domains
Shops == {"s1", "s2"}
NoDate == -1
Dates == 0 .. MaxNow
PurchaseIds == 1 .. MaxPurchases
CustomerIds == 1 .. MaxCustomers
Sockets == 1 .. MaxSockets
StatusEnum == {"pending", "completed", "overdue", "cancelled"}

Has(body, f) == f \in DOMAIN body

\* ------------------------------------------------------- Purchase.js
RECURSIVE SumTotalPrice(_)
SumTotalPrice(items) ==
  IF items = <<>> THEN 0
  ELSE Head(items).totalPrice + SumTotalPrice(Tail(items))

RecalcItems(items) ==
  [i \in DOMAIN items |->
     [items[i] EXCEPT !.totalPrice = items[i].quantity * items[i].unitPrice]]

\* variant: the computed total is added onto the stored totalAmount
DeriveTotal_accum(doc) ==
  IF Len(doc.items) > 0
  THEN doc.totalAmount + SumTotalPrice(RecalcItems(doc.items))
  ELSE doc.totalAmount

\* `!this.totalAmount` is true of 0 as well
DeriveTotal(doc) ==
  IF Len(doc.items) > 0 /\ doc.totalAmount = 0
  THEN SumTotalPrice(RecalcItems(doc.items))
  ELSE doc.totalAmount

DeriveRemaining(total, paid) == total - paid

\* variant: the due date itself already counts as overdue (>= for >)
DeriveStatus_ge(prev, remaining, dueDate, t) ==
  IF remaining <= 0 THEN "completed"
  ELSE IF dueDate # NoDate /\ t >= dueDate THEN "overdue"
  ELSE prev

DeriveStatus(prev, remaining, dueDate, t) ==
  IF remaining <= 0 THEN "completed"
  ELSE IF dueDate # NoDate /\ t > dueDate THEN "overdue"
  ELSE prev

PreSave(doc, t) ==
  LET total == DeriveTotal(doc)
      remaining == DeriveRemaining(total, doc.paidAmount)
  IN [doc EXCEPT !.items = RecalcItems(doc.items),
                 !.totalAmount = total,
                 !.remainingAmount = remaining,
                 !.paymentStatus =
                    DeriveStatus(doc.paymentStatus, remaining, doc.dueDate, t)]

isOverdue(doc, t) ==
  doc.dueDate # NoDate /\ t > doc.dueDate /\ doc.remainingAmount > 0

\* Schema validators; a request body is a record holding the fields sent
ValidItem(item) ==
  /\ Has(item, "quantity") /\ item.quantity >= 1
  /\ Has(item, "unitPrice") /\ item.unitPrice >= 0
  /\ Has(item, "totalPrice")

ValidItems(items) == \A i \in DOMAIN items : ValidItem(items[i])

ValidPurchaseFields_noPaid(body) ==
  /\ Has(body, "items") => ValidItems(body.items)
  /\ Has(body, "totalAmount") => body.totalAmount >= 0
  /\ Has(body, "paymentStatus") => body.paymentStatus \in StatusEnum

ValidPurchaseFields(body) ==
  /\ Has(body, "items") => ValidItems(body.items)
  /\ Has(body, "totalAmount") => body.totalAmount >= 0
  /\ Has(body, "paidAmount") => body.paidAmount >= 0
  /\ Has(body, "paymentStatus") => body.paymentStatus \in StatusEnum

ValidNewPurchase(body) ==
  /\ Has(body, "customer")
  /\ Has(body, "totalAmount")
  /\ ValidPurchaseFields(body)

Field(body, f, default) == IF Has(body, f) THEN body[f] ELSE default

NewPurchase(body, shop, t) ==
  [customer |-> body.customer,
   items |-> Field(body, "items", <<>>),
   totalAmount |-> body.totalAmount,
   paymentStatus |-> Field(body, "paymentStatus", "pending"),
   purchaseDate |-> Field(body, "purchaseDate", t),
   dueDate |-> Field(body, "dueDate", NoDate),
   paidAmount |-> Field(body, "paidAmount", 0),
   remainingAmount |-> Field(body, "remainingAmount", 0),
   createdBy |-> shop]

\* ------------------------------------------------------- Customer.js
PurchasesOf(P, c) == {i \in DOMAIN P : P[i].customer = c}

RECURSIVE SumTotalAmount(_, _)
SumTotalAmount(P, ids) ==
  IF ids = {} THEN 0
  ELSE LET i == CHOOSE x \in ids : TRUE
       IN P[i].totalAmount + SumTotalAmount(P, ids \ {i})

\* variant: $min where the aggregation has $max
MaxDate_min(P, ids) ==
  CHOOSE d \in {P[i].purchaseDate : i \in ids} :
    \A i \in ids : d <= P[i].purchaseDate

MaxDate(P, ids) ==
  CHOOSE d \in {P[i].purchaseDate : i \in ids} :
    \A i \in ids : P[i].purchaseDate <= d

updatePurchaseStats(cust, c, P) ==
  LET ids == PurchasesOf(P, c)
  IN IF ids # {}
     THEN [cust EXCEPT !.totalPurchases = Cardinality(ids),
                       !.totalSpent = SumTotalAmount(P, ids),
                       !.lastPurchaseDate = MaxDate(P, ids)]
     ELSE cust

\* post('save') and the tail of deletePurchase: findById, then the fold
Reconcile(C, P, c) ==
  IF c \in DOMAIN C
  THEN [C EXCEPT ![c] = updatePurchaseStats(C[c], c, P)]
  ELSE C

NewCustomer(shop) ==
  [createdBy |-> shop, isActive |-> TRUE,
   totalPurchases |-> 0, totalSpent |-> 0, lastPurchaseDate |-> NoDate]

\* ------------------------------------------------------- request bodies
\* Items as a caller may send them: totalPrice consistent, totalPrice wrong,
\* totalPrice omitted.
ItemA == [quantity |-> 1, unitPrice |-> 1, totalPrice |-> 1]
ItemB == [quantity |-> 2, unitPrice |-> 1, totalPrice |-> 1]
ItemC == [quantity |-> 2, unitPrice |-> 1]
\* Items the schema turns down: quantity below 1, negative unitPrice
ItemD == [quantity |-> 0, unitPrice |-> 1, totalPrice |-> 0]
ItemE == [quantity |-> 1, unitPrice |-> -1, totalPrice |-> -1]

Ext(B, f, S) == B \cup {b @@ (f :> v) : b \in B, v \in S}

\* POST /api/purchases bodies for customer c
MoneyBodies(c) ==
  Ext({[customer |-> c, totalAmount |-> t] : t \in 1 .. MaxAmount},
      "paidAmount", {MaxAmount, -1})
ItemBodies(c) ==
  {[customer |-> c, items |-> <<ItemC>>]}
    \cup Ext({[customer |-> c, items |-> <<ItemA, ItemB>>]}, "totalAmount", {0, 1})
StatusBodies(c) ==
  {[customer |-> c, totalAmount |-> 1, paymentStatus |-> st] :
      st \in {"completed", "overdue", "cancelled"}}
DueBodies(c) ==
  {[customer |-> c, totalAmount |-> 1, dueDate |-> d] : d \in Dates}
CreateBodies ==
  UNION {MoneyBodies(c) \cup ItemBodies(c) \cup StatusBodies(c) \cup DueBodies(c) :
           c \in CustomerIds}

\* PUT /api/purchases/:id bodies: one field per request (a body with several
\* fields has the effect of the single-field bodies applied in turn), or an
\* update operator, which findOneAndUpdate takes from the body as it is
UpdateBodies ==
  {("totalAmount" :> t) : t \in 0 .. MaxAmount}
    \cup {("paidAmount" :> a) : a \in -1 .. MaxAmount}
    \cup {("paymentStatus" :> st) : st \in StatusEnum}
    \cup {("dueDate" :> d) : d \in Dates}
    \cup {("purchaseDate" :> d) : d \in Dates}
    \cup {("customer" :> c) : c \in CustomerIds}
    \cup {("createdBy" :> sh) : sh \in Shops}
    \cup {("items" :> <<ItemB>>)}
    \cup {("$inc" :> [paidAmount |-> -1])}

\* PUT /api/purchases/:id/payment bodies
PaymentBodies ==
  {<<>>}
    \cup {("paidAmount" :> a) : a \in -1 .. MaxAmount}
    \cup {("paymentStatus" :> st) : st \in StatusEnum}

\* ------------------------------------------------------------ state
\* purchases, customers: the two collections; nextPid, nextCid: the next _id;
\* reqs: messages the server has handled (HTTP requests, socket messages);
\* now: the clock; last: response and emit of the last request;
\* joined: the rooms each socket is in; wire: the events sent to each socket
\* and not yet received by it; inbox: the events each socket has received;
\* published: the history of emits, each with the sockets in the room at that
\* moment; notifier: whether io.to(room).emit works or throws;
\* calls: the handlers in flight when requests are served step by step.
VARIABLES purchases, customers, nextPid, nextCid, reqs, now, last,
          joined, wire, inbox, published, notifier, calls

vars == <<purchases, customers, nextPid, nextCid, reqs, now, last,
          joined, wire, inbox, published, notifier, calls>>

\* what no HTTP handler writes
env == <<joined, inbox, notifier, calls>>

NoEvent == "none"

Last(op, shop, result, id, event) ==
  [op |-> op, shop |-> shop, result |-> result, id |-> id, event |-> event]

Init ==
  /\ purchases = <<>>
  /\ customers = <<>>
  /\ nextPid = 1
  /\ nextCid = 1
  /\ reqs = 0
  /\ now = 0
  /\ last = Last("init", "s1", "ok", 0, NoEvent)
  /\ joined = [k \in Sockets |-> {}]
  /\ wire = [k \in Sockets |-> <<>>]
  /\ inbox = [k \in Sockets |-> <<>>]
  /\ published = <<>>
  /\ notifier = "up"
  /\ calls = <<>>

Tick ==
  /\ now < MaxNow
  /\ now' = now + 1
  /\ UNCHANGED <<purchases, customers, nextPid, nextCid, reqs, last, wire, published, env>>

Fail(op, shop, result, id) ==
  /\ last' = Last(op, shop, result, id, NoEvent)
  /\ UNCHANGED <<purchases, customers, nextPid, nextCid, now, wire, published, env>>

\* io.to(room).emit(name, payload): every socket in the room gets the event
Event(name, room, n) == [name |-> name, room |-> room, req |-> n]

Deliver_reversed(queues, rooms, ev) ==
  [k \in DOMAIN queues |->
     IF ev.room \in rooms[k] THEN <<ev>> \o queues[k] ELSE queues[k]]

Deliver(queues, rooms, ev) ==
  [k \in DOMAIN queues |->
     IF ev.room \in rooms[k] THEN Append(queues[k], ev) ELSE queues[k]]

\* the tail of a handler after its writes: emit to the shop's room, then the
\* success response; an emit that throws reaches asyncHandler's catch
EmitAndRespondAs(n, op, shop, id, name) ==
  IF notifier = "up"
  THEN LET ev == Event(name, shop, n)
       IN /\ wire' = Deliver(wire, joined, ev)
          /\ published' = Append(published,
                 [event |-> ev, members |-> {k \in Sockets : shop \in joined[k]}])
          /\ last' = Last(op, shop, "ok", id, name)
  ELSE /\ UNCHANGED <<wire, published>>
       /\ last' = Last(op, shop, "error", id, NoEvent)

EmitAndRespond(op, shop, id, name) ==
  EmitAndRespondAs(reqs + 1, op, shop, id, name)

OwnCustomer_anyShop(shop, c) == c \in DOMAIN customers

OwnCustomer(shop, c) ==
  c \in DOMAIN customers /\ customers[c].createdBy = shop

OwnPurchase_anyShop(shop, id) == id \in DOMAIN purchases

OwnPurchase(shop, id) ==
  id \in DOMAIN purchases /\ purchases[id].createdBy = shop

Remove(F, k) == [x \in DOMAIN F \ {k} |-> F[x]]

createCustomer(shop) ==
  /\ reqs < MaxRequests
  /\ reqs' = reqs + 1
  /\ nextCid <= MaxCustomers
  /\ customers' = customers @@ (nextCid :> NewCustomer(shop))
  /\ nextCid' = nextCid + 1
  /\ EmitAndRespond("createCustomer", shop, nextCid, "customer_created")
  /\ UNCHANGED <<purchases, nextPid, now, env>>

deleteCustomer_hard(shop, c) ==
  /\ reqs < MaxRequests
  /\ reqs' = reqs + 1
  /\ IF ~OwnCustomer(shop, c)
     THEN Fail("deleteCustomer", shop, "notFound", c)
     ELSE /\ customers' = Remove(customers, c)
          /\ EmitAndRespond("deleteCustomer", shop, c, "customer_deleted")
          /\ UNCHANGED <<purchases, nextPid, nextCid, now, env>>

deleteCustomer(shop, c) ==
  /\ reqs < MaxRequests
  /\ reqs' = reqs + 1
  /\ IF ~OwnCustomer(shop, c)
     THEN Fail("deleteCustomer", shop, "notFound", c)
     ELSE /\ IF PurchasesOf(purchases, c) # {}
             THEN /\ customers' = [customers EXCEPT ![c].isActive = FALSE]
                  /\ EmitAndRespond("deleteCustomer", shop, c, "customer_deactivated")
             ELSE /\ customers' = Remove(customers, c)
                  /\ EmitAndRespond("deleteCustomer", shop, c, "customer_deleted")
          /\ UNCHANGED <<purchases, nextPid, nextCid, now, env>>

createPurchase(shop, body) ==
  /\ reqs < MaxRequests
  /\ nextPid <= MaxPurchases
  /\ reqs' = reqs + 1
  /\ IF ~OwnCustomer(shop, body.customer)
     THEN Fail("createPurchase", shop, "notFound", 0)
     ELSE IF ~ValidNewPurchase(body)
     THEN Fail("createPurchase", shop, "validationError", 0)
     ELSE LET doc == PreSave(NewPurchase(body, shop, now), now)
              P == purchases @@ (nextPid :> doc)
          IN /\ purchases' = P
             /\ customers' = Reconcile(customers, P, doc.customer)
             /\ nextPid' = nextPid + 1
             /\ EmitAndRespond("createPurchase", shop, nextPid, "purchase_created")
             /\ UNCHANGED <<nextCid, now, env>>

\* findOneAndUpdate(filter, req.body): the fields of the body are set; a $inc
\* operator in the body adds to the stored value and is not validated
ApplyUpdate(doc, body) ==
  [f \in DOMAIN doc |->
     IF Has(body, f) THEN body[f]
     ELSE IF Has(body, "$inc") /\ Has(body["$inc"], f) THEN doc[f] + body["$inc"][f]
     ELSE doc[f]]

updatePurchase(shop, id, body) ==
  /\ reqs < MaxRequests
  /\ reqs' = reqs + 1
  /\ IF ~ValidPurchaseFields(body)
     THEN Fail("updatePurchase", shop, "validationError", id)
     ELSE IF ~OwnPurchase(shop, id)
     THEN Fail("updatePurchase", shop, "notFound", id)
     ELSE /\ purchases' = [purchases EXCEPT ![id] = ApplyUpdate(@, body)]
          /\ EmitAndRespond("updatePurchase", shop, id, "purchase_updated")
          /\ UNCHANGED <<customers, nextPid, nextCid, now, env>>

deletePurchase(shop, id) ==
  /\ reqs < MaxRequests
  /\ reqs' = reqs + 1
  /\ IF ~OwnPurchase(shop, id)
     THEN Fail("deletePurchase", shop, "notFound", id)
     ELSE LET P == Remove(purchases, id)
          IN /\ purchases' = P
             /\ customers' = Reconcile(customers, P, purchases[id].customer)
             /\ EmitAndRespond("deletePurchase", shop, id, "purchase_deleted")
             /\ UNCHANGED <<nextPid, nextCid, now, env>>

SetPayment(doc, body) ==
  [doc EXCEPT !.paidAmount = Field(body, "paidAmount", @),
              !.paymentStatus = Field(body, "paymentStatus", @)]

updatePaymentStatus(shop, id, body) ==
  /\ reqs < MaxRequests
  /\ reqs' = reqs + 1
  /\ IF ~OwnPurchase(shop, id)
     THEN Fail("updatePaymentStatus", shop, "notFound", id)
     ELSE IF ~ValidPurchaseFields(body)
     THEN Fail("updatePaymentStatus", shop, "validationError", id)
     ELSE LET doc == PreSave(SetPayment(purchases[id], body), now)
              P == [purchases EXCEPT ![id] = doc]
          IN /\ purchases' = P
             /\ customers' = Reconcile(customers, P, doc.customer)
             /\ EmitAndRespond("updatePaymentStatus", shop, id, "payment_updated")
             /\ UNCHANGED <<nextPid, nextCid, now, env>>

\* GET /api/purchases/:id: a read, scoped by createdBy
getPurchase(shop, id) ==
  /\ reqs < MaxRequests
  /\ reqs' = reqs + 1
  /\ IF ~OwnPurchase(shop, id)
     THEN Fail("getPurchase", shop, "notFound", id)
     ELSE /\ last' = Last("getPurchase", shop, "ok", id, NoEvent)
          /\ UNCHANGED <<purchases, customers, nextPid, nextCid, now, wire, published, env>>

\* GET /api/purchases/overdue: the ids the query returns to shop at time t
getOverduePayments(shop, t) ==
  {id \in DOMAIN purchases :
     /\ purchases[id].createdBy = shop
     /\ purchases[id].dueDate # NoDate /\ purchases[id].dueDate < t
     /\ purchases[id].remainingAmount > 0}

Next ==
  \/ Tick
  \/ \E s \in Shops : createCustomer(s)
  \/ \E s \in Shops, c \in CustomerIds : deleteCustomer(s, c)
  \/ \E s \in Shops, body \in CreateBodies : createPurchase(s, body)
  \/ \E s \in Shops, id \in PurchaseIds, body \in UpdateBodies :
        updatePurchase(s, id, body)
  \/ \E s \in Shops, id \in PurchaseIds : deletePurchase(s, id)
  \/ \E s \in Shops, id \in PurchaseIds, body \in PaymentBodies :
        updatePaymentStatus(s, id, body)
  \/ \E s \in Shops, id \in PurchaseIds : getPurchase(s, id)

Spec == Init /\ [][Next]_vars

\* ------------------------------------------------- sockets and notifier
store == <<purchases, customers, nextPid, nextCid, now, last>>

RECURSIVE EventsOf(_, _)
EventsOf(hist, room) ==
  IF hist = <<>> THEN <<>>
  ELSE IF Head(hist).event.room = room
       THEN <<Head(hist).event>> \o EventsOf(Tail(hist), room)
       ELSE EventsOf(Tail(hist), room)

joinShop_replay(k, shopId) ==
  /\ reqs < MaxRequests
  /\ reqs' = reqs + 1
  /\ joined' = [joined EXCEPT ![k] = @ \cup {shopId}]
  /\ wire' = [wire EXCEPT ![k] = @ \o EventsOf(published, shopId)]
  /\ UNCHANGED <<store, inbox, published, notifier, calls>>

\* socket.on('join-shop', shopId): the socket joins the room it names
joinShop(k, shopId) ==
  /\ reqs < MaxRequests
  /\ reqs' = reqs + 1
  /\ joined' = [joined EXCEPT ![k] = @ \cup {shopId}]
  /\ UNCHANGED <<store, wire, inbox, published, notifier, calls>>

\* socket.on('disconnect'): the socket leaves its rooms; what was sent to it
\* and not received is lost
disconnect(k) ==
  /\ joined[k] # {}
  /\ joined' = [joined EXCEPT ![k] = {}]
  /\ wire' = [wire EXCEPT ![k] = <<>>]
  /\ UNCHANGED <<store, reqs, inbox, published, notifier, calls>>

\* a connected socket receives the oldest event sent to it
receive(k) ==
  /\ wire[k] # <<>>
  /\ inbox' = [inbox EXCEPT ![k] = Append(@, Head(wire[k]))]
  /\ wire' = [wire EXCEPT ![k] = Tail(@)]
  /\ UNCHANGED <<store, reqs, joined, published, notifier, calls>>

\* io.to(room).emit(...) starts or stops throwing
notifierFails ==
  /\ notifier = "up"
  /\ notifier' = "down"
  /\ UNCHANGED <<store, reqs, joined, wire, inbox, published, calls>>

notifierRecovers ==
  /\ notifier = "down"
  /\ notifier' = "up"
  /\ UNCHANGED <<store, reqs, joined, wire, inbox, published, calls>>

\* the request bodies used while sockets are watched
NotifyCreateBodies ==
  UNION {{[customer |-> c, totalAmount |-> 1],
          [customer |-> c, totalAmount |-> -1],
          [customer |-> c, totalAmount |-> 1, paidAmount |-> -1],
          [customer |-> c, totalAmount |-> 1, items |-> <<ItemD>>],
          [customer |-> c, totalAmount |-> 1, items |-> <<ItemE>>]} :
           c \in CustomerIds}

NotifyUpdateBodies ==
  {("totalAmount" :> MaxAmount), ("totalAmount" :> -1), ("paidAmount" :> -1),
   ("items" :> <<ItemD>>), ("items" :> <<ItemE>>)}

NotifyPaymentBodies == {("paidAmount" :> 1), ("paidAmount" :> -1)}

NextNotify ==
  \/ \E k \in Sockets, s \in Shops : joinShop(k, s)
  \/ \E k \in Sockets : disconnect(k)
  \/ \E k \in Sockets : receive(k)
  \/ notifierFails
  \/ notifierRecovers
  \/ \E s \in Shops : createCustomer(s)
  \/ \E s \in Shops, c \in CustomerIds : deleteCustomer(s, c)
  \/ \E s \in Shops, body \in NotifyCreateBodies : createPurchase(s, body)
  \/ \E s \in Shops, id \in PurchaseIds, body \in NotifyUpdateBodies :
        updatePurchase(s, id, body)
  \/ \E s \in Shops, id \in PurchaseIds : deletePurchase(s, id)
  \/ \E s \in Shops, id \in PurchaseIds, body \in NotifyPaymentBodies :
        updatePaymentStatus(s, id, body)
  \/ \E s \in Shops, id \in PurchaseIds : getPurchase(s, id)

SpecNotify == Init /\ [][NextNotify]_vars

\* ------------------------------------------- handlers served step by step
\* Every await of a handler is a point where another handler may run. A call
\* holds what the handler keeps in memory: the purchase as loaded and as
\* changed (loaded, doc), the customer as loaded and as changed (cloaded,
\* cdoc), and where the handler stands (pc).
NoDoc == [none |-> TRUE]

NewCall(op, shop, id, body) ==
  [op |-> op, shop |-> shop, id |-> id, body |-> body, n |-> reqs + 1,
   pc |-> IF op = "deleteCustomer" THEN "cfind" ELSE "find",
   loaded |-> NoDoc, doc |-> NoDoc,
   cust |-> 0, cloaded |-> NoDoc, cdoc |-> NoDoc, count |-> 0, result |-> "none"]

\* doc.save() of a loaded document writes the paths that were changed in memory
Overlay(stored, loaded, doc) ==
  [f \in DOMAIN stored |-> IF doc[f] # loaded[f] THEN doc[f] ELSE stored[f]]

\* the state after the seeding requests: shop s1 has created customer 1 and
\* one purchase of MaxAmount for it, and customer 2 without purchases
InitConc ==
  /\ customers = (1 :> [NewCustomer("s1") EXCEPT !.totalPurchases = 1,
                                              !.totalSpent = MaxAmount,
                                              !.lastPurchaseDate = 0])
                   @@ (2 :> NewCustomer("s1"))
  /\ purchases = (1 :> PreSave(NewPurchase([customer |-> 1, totalAmount |-> MaxAmount],
                                           "s1", 0), 0))
  /\ nextPid = 2
  /\ nextCid = 3
  /\ reqs = 3
  /\ now = 0
  /\ last = Last("createCustomer", "s1", "ok", 2, "customer_created")
  /\ joined = [k \in Sockets |-> {}]
  /\ wire = [k \in Sockets |-> <<>>]
  /\ inbox = [k \in Sockets |-> <<>>]
  /\ published = <<[event |-> Event("customer_created", "s1", 1), members |-> {}],
                   [event |-> Event("purchase_created", "s1", 2), members |-> {}],
                   [event |-> Event("customer_created", "s1", 3), members |-> {}]>>
  /\ notifier = "up"
  /\ calls = <<>>

ConcCreateBodies == {[customer |-> c, totalAmount |-> 1] : c \in {1, 2}}

ConcPaymentBodies == {("paidAmount" :> a) : a \in 1 .. MaxAmount}

quiet == <<now, joined, inbox, notifier>>

\* a request arrives and its handler starts
Begin(op, shop, id, body) ==
  /\ Len(calls) < MaxCalls
  /\ calls' = Append(calls, NewCall(op, shop, id, body))
  /\ reqs' = reqs + 1
  /\ UNCHANGED <<purchases, customers, nextPid, nextCid, last, wire, published, quiet>>

Goto(i, label) == calls' = [calls EXCEPT ![i].pc = label]

Finish(i, result) ==
  /\ calls' = [calls EXCEPT ![i].pc = "done", ![i].result = result]
  /\ last' = Last(calls[i].op, calls[i].shop, result, calls[i].id, NoEvent)
  /\ UNCHANGED <<purchases, customers, nextPid, nextCid, reqs, wire, published, quiet>>

\* the first await: Customer.findOne of createPurchase, Purchase.findOne of
\* updatePaymentStatus and deletePurchase
StepFind(i) ==
  LET c == calls[i]
  IN /\ c.pc = "find"
     /\ IF c.op = "createPurchase"
        THEN IF ~OwnCustomer(c.shop, c.body.customer)
             THEN Finish(i, "notFound")
             ELSE /\ Goto(i, "derive")
                  /\ UNCHANGED <<purchases, customers, nextPid, nextCid, reqs, last,
                                 wire, published, quiet>>
        ELSE IF ~OwnPurchase(c.shop, c.id)
             THEN Finish(i, "notFound")
             ELSE /\ calls' = [calls EXCEPT
                                 ![i].loaded = purchases[c.id],
                                 ![i].pc = IF c.op = "deletePurchase"
                                           THEN "remove" ELSE "derive"]
                  /\ UNCHANGED <<purchases, customers, nextPid, nextCid, reqs, last,
                                 wire, published, quiet>>

\* save() in memory: the assignments of the handler, validation, pre('save')
StepDerive(i) ==
  LET c == calls[i]
  IN /\ c.pc = "derive"
     /\ IF c.op = "createPurchase"
        THEN IF ~ValidNewPurchase(c.body)
             THEN Finish(i, "validationError")
             ELSE /\ calls' = [calls EXCEPT
                                 ![i].doc = PreSave(NewPurchase(c.body, c.shop, now), now),
                                 ![i].pc = "write"]
                  /\ UNCHANGED <<purchases, customers, nextPid, nextCid, reqs, last,
                                 wire, published, quiet>>
        ELSE IF ~ValidPurchaseFields(c.body)
             THEN Finish(i, "validationError")
             ELSE /\ calls' = [calls EXCEPT
                                 ![i].doc = PreSave(SetPayment(c.loaded, c.body), now),
                                 ![i].pc = "write"]
                  /\ UNCHANGED <<purchases, customers, nextPid, nextCid, reqs, last,
                                 wire, published, quiet>>

\* save() at the database: the insert of a new purchase, the update of a
\* loaded one
StepWrite(i) ==
  LET c == calls[i]
  IN /\ c.pc = "write"
     /\ IF c.op = "createPurchase"
        THEN /\ purchases' = purchases @@ (nextPid :> c.doc)
             /\ nextPid' = nextPid + 1
             /\ calls' = [calls EXCEPT ![i].id = nextPid,
                                       ![i].cust = c.doc.customer,
                                       ![i].pc = "rfind"]
             /\ UNCHANGED <<customers, nextCid, reqs, last, wire, published, quiet>>
        ELSE IF c.id \notin DOMAIN purchases
             THEN Finish(i, "error")
             ELSE /\ purchases' = [purchases EXCEPT
                                     ![c.id] = Overlay(@, c.loaded, c.doc)]
                  /\ calls' = [calls EXCEPT ![i].cust = c.doc.customer,
                                            ![i].pc = "rfind"]
                  /\ UNCHANGED <<customers, nextPid, nextCid, reqs, last,
                                 wire, published, quiet>>

\* Purchase.findByIdAndDelete of deletePurchase
StepRemove(i) ==
  LET c == calls[i]
  IN /\ c.pc = "remove"
     /\ purchases' = Remove(purchases, c.id)
     /\ calls' = [calls EXCEPT ![i].cust = c.loaded.customer, ![i].pc = "rfind"]
     /\ UNCHANGED <<customers, nextPid, nextCid, reqs, last, wire, published, quiet>>

\* Customer.findById before updatePurchaseStats
StepReconcileFind(i) ==
  LET c == calls[i]
  IN /\ c.pc = "rfind"
     /\ calls' = IF c.cust \in DOMAIN customers
                 THEN [calls EXCEPT ![i].cloaded = customers[c.cust],
                                    ![i].pc = "ragg"]
                 ELSE [calls EXCEPT ![i].pc = "emit"]
     /\ UNCHANGED <<purchases, customers, nextPid, nextCid, reqs, last,
                    wire, published, quiet>>

\* Purchase.aggregate and the assignments of updatePurchaseStats
StepAggregate(i) ==
  LET c == calls[i]
  IN /\ c.pc = "ragg"
     /\ calls' = [calls EXCEPT
                    ![i].cdoc = updatePurchaseStats(c.cloaded, c.cust, purchases),
                    ![i].pc = "rsave"]
     /\ UNCHANGED <<purchases, customers, nextPid, nextCid, reqs, last,
                    wire, published, quiet>>

\* this.save() at the end of updatePurchaseStats
StepCustomerSave(i) ==
  LET c == calls[i]
  IN /\ c.pc = "rsave"
     /\ customers' = IF c.cust \in DOMAIN customers
                     THEN [customers EXCEPT
                             ![c.cust] = Overlay(@, c.cloaded, c.cdoc)]
                     ELSE customers
     /\ Goto(i, "emit")
     /\ UNCHANGED <<purchases, nextPid, nextCid, reqs, last, wire, published, quiet>>

EventName(op) ==
  CASE op = "createPurchase" -> "purchase_created"
    [] op = "updatePaymentStatus" -> "payment_updated"
    [] op = "deletePurchase" -> "purchase_deleted"

\* the emit and the response
StepEmit(i) ==
  LET c == calls[i]
  IN /\ c.pc = "emit"
     /\ EmitAndRespondAs(c.n, c.op, c.shop, c.id, EventName(c.op))
     /\ calls' = [calls EXCEPT ![i].pc = "done", ![i].result = last'.result]
     /\ UNCHANGED <<purchases, customers, nextPid, nextCid, reqs, quiet>>

\* deleteCustomer, await by await: Customer.findOne
StepCustomerFind(i) ==
  LET c == calls[i]
  IN /\ c.pc = "cfind"
     /\ IF ~OwnCustomer(c.shop, c.id)
        THEN Finish(i, "notFound")
        ELSE /\ calls' = [calls EXCEPT ![i].cloaded = customers[c.id],
                                       ![i].pc = "count"]
             /\ UNCHANGED <<purchases, customers, nextPid, nextCid, reqs, last,
                            wire, published, quiet>>

\* Purchase.countDocuments({customer})
StepCount(i) ==
  LET c == calls[i]
      n == Cardinality(PurchasesOf(purchases, c.id))
  IN /\ c.pc = "count"
     /\ calls' = [calls EXCEPT ![i].count = n,
                               ![i].pc = IF n > 0 THEN "deactivate" ELSE "cremove"]
     /\ UNCHANGED <<purchases, customers, nextPid, nextCid, reqs, last,
                    wire, published, quiet>>

\* customer.isActive = false; customer.save()
StepDeactivate(i) ==
  LET c == calls[i]
  IN /\ c.pc = "deactivate"
     /\ customers' = IF c.id \in DOMAIN customers
                     THEN [customers EXCEPT
                             ![c.id] = Overlay(@, c.cloaded,
                                               [c.cloaded EXCEPT !.isActive = FALSE])]
                     ELSE customers
     /\ Goto(i, "cemit")
     /\ UNCHANGED <<purchases, nextPid, nextCid, reqs, last, wire, published, quiet>>

\* Customer.findByIdAndDelete
StepCustomerRemove(i) ==
  LET c == calls[i]
  IN /\ c.pc = "cremove"
     /\ customers' = Remove(customers, c.id)
     /\ Goto(i, "cemit")
     /\ UNCHANGED <<purchases, nextPid, nextCid, reqs, last, wire, published, quiet>>

StepCustomerEmit(i) ==
  LET c == calls[i]
  IN /\ c.pc = "cemit"
     /\ EmitAndRespondAs(c.n, c.op, c.shop, c.id,
                         IF c.count > 0 THEN "customer_deactivated"
                                        ELSE "customer_deleted")
     /\ calls' = [calls EXCEPT ![i].pc = "done", ![i].result = last'.result]
     /\ UNCHANGED <<purchases, customers, nextPid, nextCid, reqs, quiet>>

NextConc ==
  \/ \E s \in Shops, body \in ConcCreateBodies : Begin("createPurchase", s, 0, body)
  \/ \E s \in Shops, id \in PurchaseIds, body \in ConcPaymentBodies :
        Begin("updatePaymentStatus", s, id, body)
  \/ \E s \in Shops, id \in PurchaseIds : Begin("deletePurchase", s, id, <<>>)
  \/ \E i \in DOMAIN calls : StepFind(i)
  \/ \E i \in DOMAIN calls : StepDerive(i)
  \/ \E i \in DOMAIN calls : StepWrite(i)
  \/ \E i \in DOMAIN calls : StepRemove(i)
  \/ \E i \in DOMAIN calls : StepReconcileFind(i)
  \/ \E i \in DOMAIN calls : StepAggregate(i)
  \/ \E i \in DOMAIN calls : StepCustomerSave(i)
  \/ \E i \in DOMAIN calls : StepEmit(i)
  \/ \E s \in Shops, c \in CustomerIds : Begin("deleteCustomer", s, c, <<>>)
  \/ \E i \in DOMAIN calls : StepCustomerFind(i)
  \/ \E i \in DOMAIN calls : StepCount(i)
  \/ \E i \in DOMAIN calls : StepDeactivate(i)
  \/ \E i \in DOMAIN calls : StepCustomerRemove(i)
  \/ \E i \in DOMAIN calls : StepCustomerEmit(i)

SpecConc == InitConc /\ [][NextConc]_vars

\* --------------------------------------------------- dashboard reports
\* Instants are grouped into days of DayLen instants and months of MonthLen
\* days; new Date(y, m, 1) is the first instant of a month and
\* new Date(y, m, 0) the first instant of the last day of the month before.
MonthInstants == DayLen * MonthLen

currentMonthStart(t) == (t \div MonthInstants) * MonthInstants

previousMonthStart(t) == currentMonthStart(t) - MonthInstants

previousMonthEnd(t) == currentMonthStart(t) - DayLen

\* $group {_id: null, revenue: $sum totalAmount, transactions: $sum 1}
MonthStats(P, ids) ==
  [revenue |-> SumTotalAmount(P, ids), transactions |-> Cardinality(ids)]

currentMonthOf(P, shop, t) ==
  MonthStats(P, {i \in DOMAIN P : /\ P[i].createdBy = shop
                                  /\ P[i].purchaseDate >= currentMonthStart(t)})

previousMonthOf(P, shop, t) ==
  MonthStats(P, {i \in DOMAIN P : /\ P[i].createdBy = shop
                                  /\ P[i].purchaseDate >= previousMonthStart(t)
                                  /\ P[i].purchaseDate <= previousMonthEnd(t)})

\* Number.prototype.toFixed(2) of num / den * 100, den > 0: the nearest
\* multiple of 0.01, a tie going away from zero, as a count of hundredths
ToFixed2(num, den) ==
  LET a == IF num < 0 THEN -num ELSE num
      n == (2 * a * 10000 + den) \div (2 * den)
  IN IF num < 0 THEN -n ELSE n

\* previous > 0 ? (((current - previous) / previous) * 100).toFixed(2) : 0
Growth_noGuard(current, previous) ==
  IF previous # 0
  THEN [kind |-> "string", hundredths |-> ToFixed2(current - previous, previous)]
  ELSE [kind |-> "number", hundredths |-> 100 * 100]

Growth(current, previous) ==
  IF previous > 0
  THEN [kind |-> "string", hundredths |-> ToFixed2(current - previous, previous)]
  ELSE [kind |-> "number", hundredths |-> 0]

\* GET /api/dashboard/monthly-comparison
getMonthlyComparison(shop) ==
  LET current == currentMonthOf(purchases, shop, now)
      previous == previousMonthOf(purchases, shop, now)
  IN /\ last' = [op |-> "getMonthlyComparison", shop |-> shop, result |-> "ok",
                 id |-> 0, event |-> NoEvent,
                 currentMonth |-> current, previousMonth |-> previous,
                 revenueGrowth |-> Growth(current.revenue, previous.revenue),
                 transactionGrowth |->
                   Growth(current.transactions, previous.transactions)]
     /\ reqs' = reqs + 1
     /\ UNCHANGED <<purchases, customers, nextPid, nextCid, now, wire, published, env>>

\* the purchases a report is asked about: created by the handlers at the
\* first instant of the previous month, on its last day, or in this month
ReportDates ==
  {0, MonthInstants - DayLen, MonthInstants - 1, MonthInstants}

ReportBodies ==
  {[customer |-> 1, totalAmount |-> a, purchaseDate |-> d] :
     a \in 1 .. MaxAmount, d \in ReportDates}

ReportStores ==
  UNION {[1 .. n -> {PreSave(NewPurchase(b, "s1", b.purchaseDate), b.purchaseDate) :
                       b \in ReportBodies}] : n \in 0 .. MaxReportPurchases}

InitReport ==
  /\ purchases \in ReportStores
  /\ customers = Reconcile((1 :> NewCustomer("s1")), purchases, 1)
  /\ nextPid = Len(purchases) + 1
  /\ nextCid = 2
  /\ reqs = Len(purchases) + 1
  /\ now \in MonthInstants .. 2 * MonthInstants - 1
  /\ last = Last("init", "s1", "ok", 0, NoEvent)
  /\ joined = [k \in Sockets |-> {}]
  /\ wire = [k \in Sockets |-> <<>>]
  /\ inbox = [k \in Sockets |-> <<>>]
  /\ published = <<>>
  /\ notifier = "up"
  /\ calls = <<>>

NextReport ==
  \E s \in Shops : reqs = Len(purchases) + 1 /\ getMonthlyComparison(s)

SpecReport == InitReport /\ [][NextReport]_vars

\* ------------------------------------------- customer routes with bodies
\* createCustomer spreads the request body into the new document and then
\* sets createdBy; the schema puts no restriction on the aggregate fields.
NewCustomerFrom(body, shop) ==
  [createdBy |-> shop,
   isActive |-> Field(body, "isActive", TRUE),
   totalPurchases |-> Field(body, "totalPurchases", 0),
   totalSpent |-> Field(body, "totalSpent", 0),
   lastPurchaseDate |-> Field(body, "lastPurchaseDate", NoDate)]

createCustomerFrom(shop, body) ==
  /\ reqs < MaxRequests
  /\ reqs' = reqs + 1
  /\ nextCid <= MaxCustomers
  /\ customers' = customers @@ (nextCid :> NewCustomerFrom(body, shop))
  /\ nextCid' = nextCid + 1
  /\ EmitAndRespond("createCustomer", shop, nextCid, "customer_created")
  /\ UNCHANGED <<purchases, nextPid, now, env>>

\* updateCustomer hands the request body to findOneAndUpdate.
updateCustomer(shop, c, body) ==
  /\ reqs < MaxRequests
  /\ reqs' = reqs + 1
  /\ IF ~OwnCustomer(shop, c)
     THEN /\ Fail("updateCustomer", shop, "notFound", c)
          /\ UNCHANGED <<purchases, customers, nextPid, nextCid, now>>
     ELSE /\ customers' = [customers EXCEPT ![c] = ApplyUpdate(@, body)]
          /\ EmitAndRespond("updateCustomer", shop, c, "customer_updated")
          /\ UNCHANGED <<purchases, nextPid, nextCid, now, env>>

CustomerBodies ==
  { <<>>, ("totalPurchases" :> 1), ("totalSpent" :> 1),
    ("lastPurchaseDate" :> 0), ("isActive" :> FALSE) }

CustomerPurchaseBodies ==
  { ("customer" :> c) @@ ("totalAmount" :> 1) : c \in CustomerIds }

NextCustomer ==
  \/ \E s \in Shops, body \in CustomerBodies : createCustomerFrom(s, body)
  \/ \E s \in Shops, c \in CustomerIds, body \in CustomerBodies :
       updateCustomer(s, c, body)
  \/ \E s \in Shops, c \in CustomerIds : deleteCustomer(s, c)
  \/ \E s \in Shops, body \in CustomerPurchaseBodies : createPurchase(s, body)
  \/ \E s \in Shops, id \in PurchaseIds : deletePurchase(s, id)

SpecCustomer == Init /\ [][NextCustomer]_vars

\* ------------------------------------------------ reads of paymentStatus
\* The four reads that report paymentStatus. None of them writes: each answers
\* from the stored documents, and the server has no timer or sweep.
getPurchaseStatus(shop, id) ==
  /\ IF ~OwnPurchase(shop, id)
     THEN Fail("getPurchase", shop, "notFound", id)
     ELSE /\ last' = [op |-> "getPurchase", shop |-> shop, result |-> "ok",
                      id |-> id, event |-> NoEvent,
                      report |-> purchases[id].paymentStatus]
          /\ UNCHANGED <<wire, published, env>>
  /\ UNCHANGED <<purchases, customers, nextPid, nextCid, reqs, now>>

getPurchases(shop, paymentStatus) ==
  /\ last' = [op |-> "getPurchases", shop |-> shop, result |-> "ok",
              id |-> 0, event |-> NoEvent, filter |-> paymentStatus,
              report |-> {id \in DOMAIN purchases :
                            /\ purchases[id].createdBy = shop
                            /\ purchases[id].paymentStatus = paymentStatus}]
  /\ UNCHANGED <<purchases, customers, nextPid, nextCid, reqs, now,
                 wire, published, env>>

StatusCount(shop, st) ==
  Cardinality({id \in DOMAIN purchases :
                 purchases[id].createdBy = shop /\ purchases[id].paymentStatus = st})

getPurchaseStatusDistribution(shop) ==
  /\ last' = [op |-> "getPurchaseStatusDistribution", shop |-> shop,
              result |-> "ok", id |-> 0, event |-> NoEvent,
              report |-> [st \in {x \in StatusEnum : StatusCount(shop, x) > 0} |->
                            StatusCount(shop, st)]]
  /\ UNCHANGED <<purchases, customers, nextPid, nextCid, reqs, now,
                 wire, published, env>>

pendingPayments(shop) ==
  {id \in DOMAIN purchases :
     /\ purchases[id].createdBy = shop
     /\ purchases[id].paymentStatus = "pending"
     /\ purchases[id].remainingAmount > 0}

overduePayments(shop, today) ==
  {id \in DOMAIN purchases :
     /\ purchases[id].createdBy = shop
     /\ purchases[id].dueDate # NoDate /\ purchases[id].dueDate < today
     /\ purchases[id].remainingAmount > 0}

getDashboardOverview(shop) ==
  /\ last' = [op |-> "getDashboardOverview", shop |-> shop, result |-> "ok",
              id |-> 0, event |-> NoEvent,
              report |-> [pending |-> Cardinality(pendingPayments(shop)),
                          overdue |-> Cardinality(overduePayments(shop, now))]]
  /\ UNCHANGED <<purchases, customers, nextPid, nextCid, reqs, now,
                 wire, published, env>>

\* purchases as createPurchase stores them at instant 0, with or without a
\* due date, unpaid or partly or fully paid
RefreshBodies ==
  {[customer |-> 1, totalAmount |-> a, paidAmount |-> p] @@ d :
     a \in 1 .. MaxAmount, p \in 0 .. 1, d \in {<<>>, ("dueDate" :> 0)}}

RefreshStores ==
  UNION {[1 .. n -> {PreSave(NewPurchase(b, "s1", 0), 0) : b \in RefreshBodies}] :
           n \in 1 .. MaxPurchases}

InitRefresh ==
  /\ purchases \in RefreshStores
  /\ customers = Reconcile((1 :> NewCustomer("s1")), purchases, 1)
  /\ nextPid = Len(purchases) + 1
  /\ nextCid = 2
  /\ reqs = Len(purchases) + 1
  /\ now = 0
  /\ last = Last("init", "s1", "ok", 0, NoEvent)
  /\ joined = [k \in Sockets |-> {}]
  /\ wire = [k \in Sockets |-> <<>>]
  /\ inbox = [k \in Sockets |-> <<>>]
  /\ published = <<>>
  /\ notifier = "up"
  /\ calls = <<>>

ReadPurchase == \E s \in Shops, id \in PurchaseIds : getPurchaseStatus(s, id)
ReadPurchases == \E s \in Shops, st \in StatusEnum : getPurchases(s, st)
ReadDistribution == \E s \in Shops : getPurchaseStatusDistribution(s)
ReadOverview == \E s \in Shops : getDashboardOverview(s)

NextRefresh ==
  \/ Tick
  \/ ReadPurchase
  \/ ReadPurchases
  \/ ReadDistribution
  \/ ReadOverview

\* The clock keeps running and clients keep reading: every request that
\* arrives is served.
SpecRefresh ==
  /\ InitRefresh
  /\ [][NextRefresh]_vars
  /\ WF_vars(Tick)
  /\ WF_vars(ReadPurchase)
  /\ WF_vars(ReadPurchases)
  /\ WF_vars(ReadDistribution)
  /\ WF_vars(ReadOverview)

\* --------------------------------------- failures inside post('save')
\* The hook wraps findById and updatePurchaseStats in try/catch and only logs:
\* when any of them throws, nothing of the customer is written.
PostSave_applied(C, P, c, fails) == Reconcile(C, P, c)

PostSave(C, P, c, fails) == IF fails THEN C ELSE Reconcile(C, P, c)

createPurchaseHook(shop, body, fails) ==
  /\ reqs < MaxRequests
  /\ nextPid <= MaxPurchases
  /\ reqs' = reqs + 1
  /\ IF ~OwnCustomer(shop, body.customer)
     THEN Fail("createPurchase", shop, "notFound", 0)
     ELSE IF ~ValidNewPurchase(body)
     THEN Fail("createPurchase", shop, "validationError", 0)
     ELSE LET doc == PreSave(NewPurchase(body, shop, now), now)
              P == purchases @@ (nextPid :> doc)
          IN /\ purchases' = P
             /\ customers' = PostSave(customers, P, doc.customer, fails)
             /\ nextPid' = nextPid + 1
             /\ EmitAndRespond("createPurchase", shop, nextPid, "purchase_created")
             /\ UNCHANGED <<nextCid, now, env>>

updatePaymentStatusHook(shop, id, body, fails) ==
  /\ reqs < MaxRequests
  /\ reqs' = reqs + 1
  /\ IF ~OwnPurchase(shop, id)
     THEN Fail("updatePaymentStatus", shop, "notFound", id)
     ELSE IF ~ValidPurchaseFields(body)
     THEN Fail("updatePaymentStatus", shop, "validationError", id)
     ELSE LET doc == PreSave(SetPayment(purchases[id], body), now)
              P == [purchases EXCEPT ![id] = doc]
          IN /\ purchases' = P
             /\ customers' = PostSave(customers, P, doc.customer, fails)
             /\ EmitAndRespond("updatePaymentStatus", shop, id, "payment_updated")
             /\ UNCHANGED <<nextPid, nextCid, now, env>>

NextHook ==
  \/ Tick
  \/ \E s \in Shops : createCustomer(s)
  \/ \E s \in Shops, body \in CustomerPurchaseBodies, fails \in BOOLEAN :
       createPurchaseHook(s, body, fails)
  \/ \E s \in Shops, id \in PurchaseIds, body \in NotifyPaymentBodies,
        fails \in BOOLEAN :
       updatePaymentStatusHook(s, id, body, fails)

SpecHook == Init /\ [][NextHook]_vars

\* ---------------------------------------------------------- properties
\* The fold the aggregates are meant to equal, stated on its own terms
Referencing(P, c) == {i \in DOMAIN P : P[i].customer = c}

RECURSIVE SumOver(_, _)
SumOver(P, ids) ==
  IF ids = {} THEN 0
  ELSE LET i == CHOOSE x \in ids : TRUE
       IN P[i].totalAmount + SumOver(P, ids \ {i})

FoldCount(P, c) == Cardinality(Referencing(P, c))
FoldSpent(P, c) == SumOver(P, Referencing(P, c))
FoldLast(P, c) ==
  IF Referencing(P, c) = {} THEN NoDate
  ELSE CHOOSE d \in Dates :
         /\ \E i \in Referencing(P, c) : P[i].purchaseDate = d
         /\ \A i \in Referencing(P, c) : P[i].purchaseDate <= d

CountSpentMatch(C, P, c) ==
  /\ C[c].totalPurchases = FoldCount(P, c)
  /\ C[c].totalSpent = FoldSpent(P, c)

LastDateMatch(C, P, c) ==
  Referencing(P, c) # {} => C[c].lastPurchaseDate = FoldLast(P, c)

\* the step served request op and the handler reported success
Served(op) == reqs' = reqs + 1 /\ last'.op = op /\ last'.result = "ok"

\* C1: once a createPurchase for customer C has completed, C.totalPurchases is
\* the number of stored purchases referencing C, C.totalSpent the sum of their
\* totalAmount and C.lastPurchaseDate the maximum of their purchaseDate.
C1_CreateReconciles ==
  (last.op = "createPurchase" /\ last.result = "ok") =>
     LET c == purchases[last.id].customer
     IN /\ c \in DOMAIN customers
        /\ CountSpentMatch(customers, purchases, c)
        /\ LastDateMatch(customers, purchases, c)

\* C1 witness: P1 (total 2, paid 2) and then, a tick later, P2 (total 1,
\* paid 0) created for the same customer: totalPurchases 2, totalSpent 3.
C1_Witness ==
  /\ last.op = "createPurchase" /\ last.result = "ok" /\ last.id = 2
  /\ DOMAIN purchases = {1, 2}
  /\ purchases[1].customer = purchases[2].customer
  /\ purchases[1].totalAmount = 2 /\ purchases[1].paidAmount = 2
  /\ purchases[2].totalAmount = 1 /\ purchases[2].paidAmount = 0
  /\ purchases[1].purchaseDate = 0 /\ purchases[2].purchaseDate = 1
  /\ customers[purchases[1].customer].totalPurchases = 2
  /\ customers[purchases[1].customer].totalSpent = 3
  /\ customers[purchases[1].customer].lastPurchaseDate = 1

\* C2 (as claimed): after a deletePurchase of a purchase of customer C
\* completes, C's aggregates equal count, sum and max over the purchases of C
\* that remain, zero remaining giving totalPurchases 0 and totalSpent 0.
C2_DeleteReconciles ==
  [][Served("deletePurchase") =>
       LET c == purchases[last'.id].customer
       IN c \in DOMAIN customers' =>
            /\ CountSpentMatch(customers', purchases', c)
            /\ LastDateMatch(customers', purchases', c)]_vars

\* C3 (as claimed): after an updatePurchase that changes totalAmount or
\* purchaseDate completes, the owning customer's totalSpent and
\* lastPurchaseDate equal the sum and the max over its stored purchases.
C3_UpdateReconciles ==
  [][(/\ Served("updatePurchase")
      /\ \/ purchases'[last'.id].totalAmount # purchases[last'.id].totalAmount
         \/ purchases'[last'.id].purchaseDate # purchases[last'.id].purchaseDate) =>
       LET c == purchases'[last'.id].customer
       IN c \in DOMAIN customers' =>
            /\ customers'[c].totalSpent = FoldSpent(purchases', c)
            /\ customers'[c].lastPurchaseDate = FoldLast(purchases', c)]_vars

\* C4 (as claimed): every stored purchase has
\* remainingAmount = totalAmount - paidAmount.
C4_RemainingDerived ==
  \A id \in DOMAIN purchases :
    purchases[id].remainingAmount =
      purchases[id].totalAmount - purchases[id].paidAmount
RECURSIVE SumQuantityPrice(_)
SumQuantityPrice(items) ==
  IF items = <<>> THEN 0
  ELSE Head(items).quantity * Head(items).unitPrice + SumQuantityPrice(Tail(items))

ItemsInRange(items) ==
  \A i \in DOMAIN items : items[i].quantity >= 1 /\ items[i].unitPrice >= 0

\* C5 (as claimed): a createPurchase for an own customer with a non-empty list
\* of valid items and no totalAmount succeeds, stores totalAmount = sum of
\* quantity * unitPrice and stores every item's totalPrice as
\* quantity * unitPrice, whether or not the caller sent a totalPrice.
C5_TotalFromItems ==
  [][\A s \in Shops, body \in CreateBodies :
       (/\ createPurchase(s, body)
        /\ OwnCustomer(s, body.customer)
        /\ Has(body, "items") /\ body.items # <<>> /\ ItemsInRange(body.items)
        /\ ~Has(body, "totalAmount")) =>
          /\ last'.result = "ok"
          /\ purchases'[last'.id].totalAmount = SumQuantityPrice(body.items)
          /\ \A i \in DOMAIN body.items :
               purchases'[last'.id].items[i].totalPrice =
                 body.items[i].quantity * body.items[i].unitPrice]_vars

ExpectedStatus(remaining, dueDate, t) ==
  IF remaining <= 0 THEN "completed"
  ELSE IF dueDate # NoDate /\ t > dueDate THEN "overdue"
  ELSE "pending"

\* C6 (as claimed): a derivation pass (the save of updatePaymentStatus) on a
\* purchase whose status is not cancelled leaves paymentStatus = completed if
\* remainingAmount <= 0, else overdue if dueDate is set and now > dueDate,
\* else pending, whatever the status was before.
C6_StatusDerived ==
  [][\A s \in Shops, id \in PurchaseIds, body \in PaymentBodies :
       (/\ updatePaymentStatus(s, id, body)
        /\ last'.result = "ok"
        /\ SetPayment(purchases[id], body).paymentStatus # "cancelled") =>
          purchases'[id].paymentStatus =
            ExpectedStatus(purchases'[id].remainingAmount,
                           purchases'[id].dueDate, now)]_vars

\* C7 (as claimed): a purchase that is cancelled is still cancelled after an
\* updatePaymentStatus whose body sets no paymentStatus.
C7_CancelledSticky ==
  [][\A s \in Shops, id \in PurchaseIds, body \in PaymentBodies :
       (/\ updatePaymentStatus(s, id, body)
        /\ last'.result = "ok"
        /\ purchases[id].paymentStatus = "cancelled"
        /\ ~Has(body, "paymentStatus")) =>
          purchases'[id].paymentStatus = "cancelled"]_vars

\* C8: the pre-save derivation is idempotent for a fixed now: deriving a stored
\* purchase twice gives the same items, totalAmount, remainingAmount and
\* paymentStatus as deriving it once.
C8_DerivationIdempotent ==
  \A id \in DOMAIN purchases :
    LET once == PreSave(purchases[id], now)
    IN PreSave(once, now) = once

\* C8 witness: a purchase with items whose total was computed from the items
\* has been saved again by updatePaymentStatus; deriving it once more at the
\* same now changes nothing.
C8_Witness ==
  /\ last.op = "updatePaymentStatus" /\ last.result = "ok"
  /\ last.id \in DOMAIN purchases
  /\ purchases[last.id].items # <<>>
  /\ purchases[last.id].totalAmount = 3
  /\ PreSave(purchases[last.id], now) = purchases[last.id]

OverduePredicate(dueDate, remaining, t) ==
  dueDate # NoDate /\ remaining > 0 /\ t > dueDate

\* C9: overdue means dueDate set, remainingAmount > 0 and now > dueDate
\* (now = dueDate is not overdue); the pre-save derivation sets overdue exactly
\* under this predicate, and the isOverdue virtual and the getOverduePayments
\* query select exactly the purchases that satisfy it.
C9_OverdueAgreement ==
  \A id \in DOMAIN purchases :
    LET p == purchases[id]
        q == PreSave(p, now)
    IN /\ OverduePredicate(q.dueDate, q.remainingAmount, now)
            => q.paymentStatus = "overdue"
       /\ (q.paymentStatus = "overdue" /\ p.paymentStatus # "overdue")
            => OverduePredicate(q.dueDate, q.remainingAmount, now)
       /\ isOverdue(p, now) <=> OverduePredicate(p.dueDate, p.remainingAmount, now)
       /\ (id \in getOverduePayments(p.createdBy, now))
            <=> OverduePredicate(p.dueDate, p.remainingAmount, now)

\* C9 witness: the tie: a purchase saved at now = dueDate with money owed stays
\* pending and is not returned by the overdue query.
C9_Witness ==
  /\ last.op = "updatePaymentStatus" /\ last.result = "ok"
  /\ last.id \in DOMAIN purchases
  /\ purchases[last.id].dueDate = now
  /\ purchases[last.id].remainingAmount > 0
  /\ purchases[last.id].paymentStatus = "pending"
  /\ ~isOverdue(purchases[last.id], now)
  /\ last.id \notin getOverduePayments(last.shop, now)

\* C10 (as claimed): a stored purchase without dueDate never has
\* paymentStatus = overdue.
C10_NoDueDateNeverOverdue ==
  \A id \in DOMAIN purchases :
    purchases[id].dueDate = NoDate => purchases[id].paymentStatus # "overdue"

\* C14: createPurchase by shop s for a customer id that is not stored, or that
\* is stored under another shop, answers not-found, stores no purchase, changes
\* no customer and emits nothing.
C14_UnknownCustomerNotFound ==
  [][last'.op = "createPurchase" =>
     \A s \in {last'.shop}, body \in NotifyCreateBodies :
       (/\ \/ body.customer \notin DOMAIN customers
           \/ customers[body.customer].createdBy # s
        /\ createPurchase(s, body))
       => /\ last'.result = "notFound"
          /\ last'.event = NoEvent
          /\ purchases' = purchases
          /\ customers' = customers
          /\ nextPid' = nextPid
          /\ wire' = wire
          /\ published' = published]_vars

\* C14 witness: every customer id is stored and owned by the other shop, and
\* the last request was a createPurchase answered not-found.
C14_Witness ==
  /\ last.op = "createPurchase" /\ last.result = "notFound"
  /\ DOMAIN customers = CustomerIds
  /\ \A c \in CustomerIds : customers[c].createdBy # last.shop
  /\ purchases = <<>>

\* A purchase id that shop s cannot reach: not stored, or stored by another shop
Foreign(s, id) == id \in DOMAIN purchases /\ purchases[id].createdBy # s

Absent(id) == id \notin DOMAIN purchases

NothingMoves ==
  /\ purchases' = purchases
  /\ customers' = customers
  /\ wire' = wire
  /\ published' = published
  /\ last'.event = NoEvent

\* The body of an update that schema validation turns down
Rejected(body) ==
  \/ "paidAmount" \in DOMAIN body /\ body.paidAmount < 0
  \/ "totalAmount" \in DOMAIN body /\ body.totalAmount < 0
  \/ /\ "items" \in DOMAIN body
     /\ \E i \in DOMAIN body.items :
          body.items[i].quantity < 1 \/ body.items[i].unitPrice < 0

\* C15 (as claimed): updatePurchase, updatePaymentStatus, deletePurchase and
\* getPurchase by shop s on another shop's purchase answer not-found and leave
\* purchases, customers and every inbox unchanged.
C15_ForeignIsNotFound ==
  [][\A s \in {last'.shop}, id \in {last'.id} \cap PurchaseIds :
       (/\ Foreign(s, id)
        /\ \/ \E body \in NotifyUpdateBodies : updatePurchase(s, id, body)
           \/ \E body \in NotifyPaymentBodies : updatePaymentStatus(s, id, body)
           \/ deletePurchase(s, id)
           \/ getPurchase(s, id))
       => last'.result = "notFound" /\ NothingMoves]_vars

\* C15 (amended): the four operations answer a request on another shop's
\* purchase exactly as they answer the same request on an id that is not
\* stored: not-found, except that updatePurchase with a body that fails schema
\* validation answers with the validation error for either id; in every case
\* purchases, customers and every inbox stay unchanged.
C15_ForeignAsAbsent ==
  [][\A s \in {last'.shop}, id \in {last'.id} \cap PurchaseIds :
       (Foreign(s, id) \/ Absent(id))
       => /\ last'.op = "updatePurchase" => \A body \in NotifyUpdateBodies :
               updatePurchase(s, id, body)
               => /\ last'.result =
                       IF Rejected(body) THEN "validationError" ELSE "notFound"
                  /\ NothingMoves
          /\ last'.op = "updatePaymentStatus" => \A body \in NotifyPaymentBodies :
               updatePaymentStatus(s, id, body)
               => last'.result = "notFound" /\ NothingMoves
          /\ deletePurchase(s, id)
               => last'.result = "notFound" /\ NothingMoves
          /\ getPurchase(s, id)
               => last'.result = "notFound" /\ NothingMoves]_vars

\* C15 witness: an updatePurchase on another shop's stored purchase was
\* answered with the validation error.
C15_Witness ==
  /\ last.op = "updatePurchase" /\ last.result = "validationError"
  /\ last.id \in DOMAIN purchases
  /\ purchases[last.id].createdBy # last.shop

\* C16 (as claimed): customer, purchaseDate and createdBy of a stored purchase
\* never change: no request, whatever its body carries, rewrites them.
C16_CreationFieldsImmutable ==
  [][\A id \in DOMAIN purchases \cap DOMAIN purchases' :
       /\ purchases'[id].customer = purchases[id].customer
       /\ purchases'[id].purchaseDate = purchases[id].purchaseDate
       /\ purchases'[id].createdBy = purchases[id].createdBy]_vars

\* C17: deleteCustomer by the owner of customer c: when some stored purchase
\* references c, only isActive changes (to false), the record, its aggregates
\* and all purchases stay, and customer_deactivated is emitted; when none does,
\* the record is removed and customer_deleted is emitted.
C17_DeactivateOrDelete ==
  [][\A s \in Shops, c \in CustomerIds :
       (/\ last'.op = "deleteCustomer" /\ last'.shop = s
        /\ c \in DOMAIN customers
        /\ customers[c].createdBy = s
        /\ deleteCustomer(s, c))
       => /\ purchases' = purchases
          /\ \A d \in DOMAIN customers \ {c} :
               d \in DOMAIN customers' /\ customers'[d] = customers[d]
          /\ IF Referencing(purchases, c) # {}
             THEN /\ c \in DOMAIN customers'
                  /\ customers'[c].isActive = FALSE
                  /\ customers'[c].totalPurchases = customers[c].totalPurchases
                  /\ customers'[c].totalSpent = customers[c].totalSpent
                  /\ customers'[c].lastPurchaseDate = customers[c].lastPurchaseDate
                  /\ customers'[c].createdBy = customers[c].createdBy
                  /\ last'.event = "customer_deactivated"
             ELSE /\ c \notin DOMAIN customers'
                  /\ last'.event = "customer_deleted"]_vars

\* C17 witness: a customer with a stored purchase was deactivated and is kept.
C17_Witness ==
  /\ last.op = "deleteCustomer" /\ last.event = "customer_deactivated"
  /\ last.id \in DOMAIN customers
  /\ customers[last.id].isActive = FALSE
  /\ customers[last.id].totalPurchases = 1
  /\ Referencing(purchases, last.id) # {}

\* The position of an emitted event in the order of publication
PublishedAt(e) == CHOOSE j \in DOMAIN published : published[j].event = e

\* C18: a socket that has received two events of the same shop's room received
\* them in the order in which the handlers emitted them.
C18_OrderPreserved ==
  \A k \in Sockets : \A i, j \in DOMAIN inbox[k] :
    (i < j /\ inbox[k][i].room = inbox[k][j].room)
      => /\ \E n \in DOMAIN published : published[n].event = inbox[k][i]
         /\ \E n \in DOMAIN published : published[n].event = inbox[k][j]
         /\ PublishedAt(inbox[k][i]) < PublishedAt(inbox[k][j])

\* C18 witness: a socket has received two events of one room.
C18_Witness ==
  \E k \in Sockets :
    /\ Len(inbox[k]) = 2
    /\ inbox[k][1].room = inbox[k][2].room
    /\ inbox[k][1].name = "customer_created"
    /\ inbox[k][2].name = "purchase_created"

\* C19: every event a socket has received was emitted to a room the socket was
\* in at the moment of the emit (joining later brings no earlier event), and no
\* socket has received the same event twice.
C19_NoReplayAtMostOnce ==
  \A k \in Sockets :
    /\ \A i \in DOMAIN inbox[k] :
         \E n \in DOMAIN published :
           published[n].event = inbox[k][i] /\ k \in published[n].members
    /\ \A i, j \in DOMAIN inbox[k] : i # j => inbox[k][i] # inbox[k][j]

\* C19 witness: a socket joined a room after a first event was emitted to it,
\* received a later event of that room, and has not received the first.
C19_Witness ==
  \E k \in Sockets :
    /\ Len(published) = 2
    /\ published[1].event.room = published[2].event.room
    /\ k \notin published[1].members
    /\ k \in published[2].members
    /\ inbox[k] = <<published[2].event>>
    /\ wire[k] = <<>>

\* C20 (as claimed): a request whose writes reached the store is answered with
\* success even when the emit throws.
C20_EmitFailureSwallowed ==
  [][(/\ notifier = "down"
      /\ reqs' = reqs + 1
      /\ purchases' # purchases \/ customers' # customers)
     => last'.result = "ok"]_vars

AllDone == \A i \in DOMAIN calls : calls[i].pc = "done" /\ calls[i].result = "ok"

\* C11 (as claimed): after two updatePaymentStatus calls on one purchase with
\* different paidAmount, both of which read the purchase before either wrote
\* it, the stored (paidAmount, remainingAmount, paymentStatus) is what one of
\* the two would have stored alone: its paidAmount, totalAmount - paidAmount,
\* and the status derived from that remainder.
C11_ConcurrentPaymentsConsistent ==
  (/\ Len(calls) = 2
   /\ AllDone
   /\ \A i \in DOMAIN calls :
        /\ calls[i].op = "updatePaymentStatus"
        /\ calls[i].loaded.paidAmount = 0
        /\ calls[i].loaded.paymentStatus = "pending"
   /\ calls[1].id = calls[2].id
   /\ calls[1].body.paidAmount # calls[2].body.paidAmount
   /\ calls[1].id \in DOMAIN purchases)
  => LET p == purchases[calls[1].id]
     IN \E i \in DOMAIN calls :
          /\ p.paidAmount = calls[i].body.paidAmount
          /\ p.remainingAmount = p.totalAmount - calls[i].body.paidAmount
          /\ p.paymentStatus = ExpectedStatus(p.remainingAmount, p.dueDate, now)

\* C12 (as claimed): once two mutations of one customer's purchases, one of
\* them a createPurchase, have both completed, the customer's totalPurchases
\* and totalSpent equal the fold over the purchases then stored.
C12_NoLostUpdate ==
  (/\ Len(calls) = 2
   /\ AllDone
   /\ \E i \in DOMAIN calls : calls[i].op = "createPurchase"
   /\ \A i \in DOMAIN calls : calls[i].cust = 1)
  => CountSpentMatch(customers, purchases, 1)

\* C13 (as claimed): while a deletePurchase has removed its record and has not
\* yet answered, and the customer still has another purchase and no other
\* handler is running, the customer's totalPurchases and totalSpent already
\* equal the fold over the stored purchases.
C13_DeleteNotTransientlyStale ==
  \A i \in DOMAIN calls :
    (/\ calls[i].op = "deletePurchase"
     /\ calls[i].pc \in {"rfind", "ragg", "rsave"}
     /\ calls[i].cust \in DOMAIN customers
     /\ Referencing(purchases, calls[i].cust) # {}
     /\ \A j \in DOMAIN calls \ {i} : calls[j].pc = "done")
    => CountSpentMatch(customers, purchases, calls[i].cust)

\* The two growth figures of a monthly comparison, each with the current and
\* previous value it was computed from
GrowthFigures ==
  {[g |-> last.revenueGrowth, cur |-> last.currentMonth.revenue,
    prev |-> last.previousMonth.revenue],
   [g |-> last.transactionGrowth, cur |-> last.currentMonth.transactions,
    prev |-> last.previousMonth.transactions]}

C22_InvalidRejected ==
  [][/\ last'.op = "createPurchase" =>
          \A s \in {last'.shop}, body \in NotifyCreateBodies :
            (Rejected(body) /\ createPurchase(s, body))
            => last'.result = "validationError" /\ NothingMoves
     /\ last'.op = "updatePurchase" =>
          \A s \in {last'.shop}, id \in PurchaseIds, body \in NotifyUpdateBodies :
            (Rejected(body) /\ updatePurchase(s, id, body))
            => last'.result = "validationError" /\ NothingMoves
     /\ last'.op = "updatePaymentStatus" =>
          \A s \in {last'.shop}, id \in PurchaseIds, body \in NotifyPaymentBodies :
            (Rejected(body) /\ updatePaymentStatus(s, id, body))
            => last'.result = "validationError" /\ NothingMoves]_vars

\* C22 (amended): such a request is rejected and leaves purchases, customers
\* and every event stream as they were; the answer is the validation error,
\* except that createPurchase for a customer the shop does not own and
\* updatePaymentStatus for a purchase the shop does not own answer not-found.
C22_InvalidNeverApplied ==
  [][/\ last'.op = "createPurchase" =>
          \A s \in {last'.shop}, body \in NotifyCreateBodies :
            (Rejected(body) /\ createPurchase(s, body))
            => /\ last'.result =
                    IF /\ body.customer \in DOMAIN customers
                       /\ customers[body.customer].createdBy = s
                    THEN "validationError" ELSE "notFound"
               /\ NothingMoves
     /\ last'.op = "updatePurchase" =>
          \A s \in {last'.shop}, id \in PurchaseIds, body \in NotifyUpdateBodies :
            (Rejected(body) /\ updatePurchase(s, id, body))
            => last'.result = "validationError" /\ NothingMoves
     /\ last'.op = "updatePaymentStatus" =>
          \A s \in {last'.shop}, id \in PurchaseIds, body \in NotifyPaymentBodies :
            (Rejected(body) /\ updatePaymentStatus(s, id, body))
            => /\ last'.result =
                    IF Foreign(s, id) \/ Absent(id)
                    THEN "notFound" ELSE "validationError"
               /\ NothingMoves]_vars

\* C22 witness: a payment update on the shop's own purchase was answered with
\* the validation error and the purchase still has nothing paid.
C22_Witness ==
  /\ last.op = "updatePaymentStatus" /\ last.result = "validationError"
  /\ last.id \in DOMAIN purchases
  /\ purchases[last.id].createdBy = last.shop
  /\ purchases[last.id].paidAmount = 0

\* C23 (as claimed): every stored purchase has totalAmount >= 0 and
\* paidAmount >= 0.
C23_AmountsNonNegative ==
  \A id \in DOMAIN purchases :
    purchases[id].totalAmount >= 0 /\ purchases[id].paidAmount >= 0

\* C24 (as claimed): with deleteCustomer and createPurchase interleaved at
\* their awaits, every stored purchase references a stored customer.
C24_NoOrphanPurchase ==
  \A id \in DOMAIN purchases : purchases[id].customer \in DOMAIN customers

\* The emits of one event name in the history of emits
Emitted(name) == {n \in DOMAIN published : published[n].event.name = name}

\* C25 (as claimed): once every handler has answered, purchase_deleted has
\* been emitted exactly once per purchase removed from the store, also when
\* two deletePurchase calls on one purchase are interleaved.
C25_OneEventPerChange ==
  (\A i \in DOMAIN calls : calls[i].pc = "done")
  => Cardinality(Emitted("purchase_deleted"))
       = (nextPid - 1) - Cardinality(DOMAIN purchases)

CustomerEvents ==
  {"customer_created", "customer_updated", "customer_deactivated", "customer_deleted"}

\* C26 (as claimed): a createPurchase, updatePaymentStatus or deletePurchase
\* that changes a customer's totalPurchases, totalSpent or lastPurchaseDate
\* emits a customer event besides its purchase event.
C26_CustomerEventOnAggregateChange ==
  [][(/\ last'.op \in {"createPurchase", "updatePaymentStatus", "deletePurchase"}
      /\ reqs' = reqs + 1
      /\ \E c \in DOMAIN customers \cap DOMAIN customers' :
           \/ customers'[c].totalPurchases # customers[c].totalPurchases
           \/ customers'[c].totalSpent # customers[c].totalSpent
           \/ customers'[c].lastPurchaseDate # customers[c].lastPurchaseDate)
     => \E n \in DOMAIN published' \ DOMAIN published :
          published'[n].event.name \in CustomerEvents]_vars

\* C27: the stored aggregates of a customer change only by reconciliation: a
\* customer created through the API starts with no purchases, nothing spent
\* and no last purchase date, and updateCustomer leaves the three aggregates
\* of the customer as they were.
C27_AggregatesOnlyByReconciliation ==
  [][ /\ (last'.op = "createCustomer" /\ last'.result = "ok")
         => /\ customers'[last'.id].totalPurchases = 0
            /\ customers'[last'.id].totalSpent = 0
            /\ customers'[last'.id].lastPurchaseDate = NoDate
      /\ (last'.op = "updateCustomer" /\ last'.result = "ok" /\ reqs' # reqs)
         => /\ customers'[last'.id].totalPurchases = customers[last'.id].totalPurchases
            /\ customers'[last'.id].totalSpent = customers[last'.id].totalSpent
            /\ customers'[last'.id].lastPurchaseDate = customers[last'.id].lastPurchaseDate
    ]_vars

Stale(id) ==
  /\ id \in DOMAIN purchases
  /\ purchases[id].paymentStatus = "pending"
  /\ purchases[id].dueDate # NoDate
  /\ purchases[id].remainingAmount > 0
  /\ now > purchases[id].dueDate

FreshPending(shop) ==
  {i \in DOMAIN purchases :
     /\ purchases[i].createdBy = shop
     /\ purchases[i].paymentStatus = "pending"
     /\ ~Stale(i)}

ReportedOverdue(id) ==
  /\ id \in DOMAIN purchases
  /\ last.result = "ok"
  /\ last.shop = purchases[id].createdBy
  /\ \/ last.op = "getPurchase" /\ last.id = id /\ last.report = "overdue"
     \/ last.op = "getPurchases" /\ last.filter = "overdue" /\ id \in last.report
     \/ last.op = "getPurchases" /\ last.filter = "pending" /\ id \notin last.report
     \/ /\ last.op = "getPurchaseStatusDistribution"
        /\ Cardinality(FreshPending(last.shop)) =
             (IF "pending" \in DOMAIN last.report THEN last.report["pending"] ELSE 0)
     \/ /\ last.op = "getDashboardOverview"
        /\ last.report.pending = Cardinality(FreshPending(last.shop))

\* C28: a purchase stored as pending with dueDate set and remainingAmount > 0
\* whose due date has passed is, with no request changing it, eventually
\* reported as overdue and no longer as pending by a read: getPurchase, the
\* list filtered by paymentStatus, the status distribution or the dashboard
\* pending count.
C28_StaleEventuallyReportedOverdue ==
  \A id \in PurchaseIds : Stale(id) ~> ReportedOverdue(id)

OwnedBy(F, shop) == {id \in DOMAIN F : F[id].createdBy = shop}

\* C29: a request issued by one shop changes nothing of another shop: every
\* purchase and customer the other shop owned before the request is stored
\* unchanged after it, the other shop owns no purchase or customer it did
\* not own before, and no event is emitted on the other shop's channel.
C29_ShopIsolation ==
  [][ reqs' # reqs =>
        \A b \in Shops \ {last'.shop} :
          /\ OwnedBy(purchases', b) = OwnedBy(purchases, b)
          /\ \A id \in OwnedBy(purchases, b) : purchases'[id] = purchases[id]
          /\ OwnedBy(customers', b) = OwnedBy(customers, b)
          /\ \A c \in OwnedBy(customers, b) : customers'[c] = customers[c]
          /\ \A i \in Len(published) + 1 .. Len(published') :
               published'[i].event.room # b
    ]_vars

LastPublished == published'[Len(published')].event

\* C30: when reconciliation fails inside the post-save hook, createPurchase and
\* updatePaymentStatus still answer with success, the purchase write is
\* stored, the purchase event is emitted on the shop's channel and every
\* customer keeps the aggregates it had before the request.
C30_HookFailureSwallowed ==
  [][ \A s \in {last'.shop} :
        /\ last'.op = "createPurchase" =>
             \A body \in CustomerPurchaseBodies :
               (OwnCustomer(s, body.customer) /\ createPurchaseHook(s, body, TRUE)) =>
                 /\ last'.result = "ok"
                 /\ DOMAIN purchases' = DOMAIN purchases \cup {last'.id}
                 /\ last'.id \notin DOMAIN purchases
                 /\ purchases'[last'.id].customer = body.customer
                 /\ purchases'[last'.id].totalAmount = body.totalAmount
                 /\ Len(published') = Len(published) + 1
                 /\ LastPublished.name = "purchase_created"
                 /\ LastPublished.room = s
                 /\ customers' = customers
        /\ last'.op = "updatePaymentStatus" =>
             \A id \in {last'.id}, body \in NotifyPaymentBodies :
               (/\ OwnPurchase(s, id)
                /\ body.paidAmount >= 0
                /\ updatePaymentStatusHook(s, id, body, TRUE)) =>
                 /\ last'.result = "ok"
                 /\ purchases'[id].paidAmount = body.paidAmount
                 /\ purchases'[id].remainingAmount =
                      purchases[id].totalAmount - body.paidAmount
                 /\ Len(published') = Len(published) + 1
                 /\ LastPublished.name = "payment_updated"
                 /\ LastPublished.room = s
                 /\ customers' = customers
    ]_vars

C30_Witness ==
  /\ last.op = "updatePaymentStatus"
  /\ last.result = "ok"
  /\ last.id \in DOMAIN purchases
  /\ purchases[last.id].paidAmount = 1
  /\ purchases[last.id].customer \in DOMAIN customers
  /\ customers[purchases[last.id].customer].totalPurchases = 0
====
